---- MODULE Spec2Model ----
(***************************************************************************)
(* A model of ulid-workers (src/ulid.ts): the Crockford Base32 codec, the  *)
(* timestamp validator, the time decoder and the two generator variants    *)
(* returned by ulidFactory.                                                *)
(*                                                                         *)
(* Representation.  A JavaScript string is a sequence of one-character     *)
(* strings.  A JavaScript number is a record; a non-negative integer n is  *)
(* held in two limbs, n = hi * 32^5 + lo with 0 <= lo < 32^5, because a    *)
(* 48-bit timestamp does not fit the model checker's integers.  All the    *)
(* arithmetic of the source (% 32, (t - mod) / 32, * 32^index, >) is done  *)
(* on the limbs and is exact, as it is in the source for integers < 2^53.  *)
(***************************************************************************)
EXTENDS Integers, Sequences, FiniteSets, TLC

(***************************************************************************)
(* Characters and strings                                                  *)
(***************************************************************************)

\* The ASCII characters with code units 48 ("0") .. 122 ("z"), in code order.
Ascii48 ==
    << "0","1","2","3","4","5","6","7","8","9",":",";","<","=",">","?","@",
       "A","B","C","D","E","F","G","H","I","J","K","L","M","N","O","P","Q",
       "R","S","T","U","V","W","X","Y","Z","[","(backslash)","]","^","_","(backtick)",
       "a","b","c","d","e","f","g","h","i","j","k","l","m","n","o","p","q",
       "r","s","t","u","v","w","x","y","z" >>

\* String.prototype.indexOf for a one-character needle: 0-based, -1 if absent.
\* A needle that is not a character (undefined) is never found.
IndexOf(str, char) ==
    LET found == {i \in 1..Len(str) : str[i] = char}
    IN  IF found = { } THEN -1
        ELSE (CHOOSE i \in found : \A j \in found : i <= j) - 1

\* The UTF-16 code unit of a character.
CharCode(char) == 48 + IndexOf(Ascii48, char)

\* str[index] with a 0-based index; out of range gives the marker
\* "undefined" (which is not a character of any alphabet).
At(str, index) ==
    IF index >= 0 /\ index < Len(str) THEN str[index + 1] ELSE "undefined"

\* str.charAt(index): a string of one character, empty when out of range.
charAt(str, index) ==
    IF index >= 0 /\ index < Len(str) THEN << str[index + 1] >> ELSE << >>

\* JavaScript's < on strings: comparison by code units, a proper prefix first.
RECURSIVE StrLessFrom(_, _, _)
StrLessFrom(a, b, k) ==
    IF k > Len(b) THEN FALSE
    ELSE IF k > Len(a) THEN TRUE
    ELSE IF a[k] = b[k] THEN StrLessFrom(a, b, k + 1)
    ELSE CharCode(a[k]) < CharCode(b[k])
StrLess(a, b) == StrLessFrom(a, b, 1)

\* The value of a string variable that was never assigned (not a string).
UndefinedStr == << "undefined" >>

\* char.repeat(n)
Repeat(char, n) == [i \in 1..n |-> char]

\* String.prototype.substr(start, length) for start >= 0.
Substr(str, start, length) ==
    IF start >= Len(str) \/ length <= 0 THEN << >>
    ELSE SubSeq(str, start + 1,
                IF start + length > Len(str) THEN Len(str) ELSE start + length)

\* String.prototype.substr(start) for start >= 0.
SubstrFrom(str, start) == Substr(str, start, Len(str))

(***************************************************************************)
(* The constants of the source                                             *)
(***************************************************************************)

ENCODING ==
    << "0","1","2","3","4","5","6","7","8","9","A","B","C","D","E","F","G",
       "H","J","K","M","N","P","Q","R","S","T","V","W","X","Y","Z" >>
ENCODING_LEN == Len(ENCODING)
TIME_LEN == 10
RANDOM_LEN == 16

(***************************************************************************)
(* JavaScript numbers                                                      *)
(***************************************************************************)

\* One limb holds five base-32 digits.
LimbDigits == TIME_LEN \div 2
Limb == ENCODING_LEN ^ LimbDigits

Undefined ==
    [kind |-> "undefined", neg |-> FALSE, inf |-> FALSE, hi |-> 0, lo |-> 0,
     frac |-> FALSE]
NaN ==
    [kind |-> "NaN", neg |-> FALSE, inf |-> FALSE, hi |-> 0, lo |-> 0,
     frac |-> FALSE]
\* The integer hi * 32^5 + lo.
Num(hi, lo) ==
    [kind |-> "number", neg |-> FALSE, inf |-> FALSE, hi |-> hi, lo |-> lo,
     frac |-> FALSE]
\* -(hi * 32^5 + lo)
Neg(hi, lo) == [Num(hi, lo) EXCEPT !.neg = TRUE]
\* hi * 32^5 + lo + f for some fraction 0 < f < 1
Frac(hi, lo) == [Num(hi, lo) EXCEPT !.frac = TRUE]
Infinity == [Num(0, 0) EXCEPT !.inf = TRUE]
Zero == Num(0, 0)

\* Values that are not numbers, as a caller without type checking passes
\* them: null, a boolean, a string that reads as the number n ("" reads as 0)
\* and a string that does not ("test").  The number fields hold what the
\* value converts to.
Null == [Num(0, 0) EXCEPT !.kind = "null"]
Bool(flag) == [Num(0, IF flag THEN 1 ELSE 0) EXCEPT !.kind = "boolean"]
NumericString(n) == [n EXCEPT !.kind = "string"]
Text == [Num(0, 0) EXCEPT !.kind = "text"]

\* ToNumber(x), the conversion isNaN, < and > apply to their operands.
ToNumber(x) ==
    IF x.kind \in {"number", "NaN"} THEN x
    ELSE IF x.kind \in {"undefined", "text"} THEN NaN
    ELSE [x EXCEPT !.kind = "number"]

\* Math.pow(2, 48) - 1  =  (2^23 - 1) * 2^25 + (2^25 - 1)
TIME_MAX == Num(2 ^ 23 - 1, Limb - 1)

\* isNaN(x) for x a number, NaN or undefined (which converts to NaN).
IsNaN(x) == x.kind # "number"

IsZero(x) == x.kind = "number" /\ ~x.inf /\ x.hi = 0 /\ x.lo = 0 /\ ~x.frac

\* ToBoolean(x): undefined, NaN and 0 are falsy, every other number truthy.
Truthy(x) == x.kind = "number" /\ ~IsZero(x)

\* |a| < |b|.  Two fractional numbers with the same integer part are not
\* ordered by the model; the source only compares against integers.
MagLT(a, b) ==
    IF a.inf \/ b.inf THEN ~a.inf /\ b.inf
    ELSE IF a.hi # b.hi THEN a.hi < b.hi
    ELSE IF a.lo # b.lo THEN a.lo < b.lo
    ELSE ~a.frac /\ b.frac

\* a < b and a > b on numbers; every comparison with NaN is false.
NumLT(a, b) ==
    IF IsNaN(a) \/ IsNaN(b) THEN FALSE
    ELSE IF a.neg /\ ~b.neg THEN ~(IsZero(a) /\ IsZero(b))
    ELSE IF ~a.neg /\ b.neg THEN FALSE
    ELSE IF a.neg THEN MagLT(b, a)
    ELSE MagLT(a, b)
NumGT(a, b) == NumLT(b, a)

\* Number.isInteger(x)
IsInteger(x) == x.kind = "number" /\ ~x.inf /\ ~x.frac

\* n % 32 and (n - n % 32) / 32 for a non-negative integer n.
Mod32(n) == n.lo % ENCODING_LEN
Div32(n) ==
    Num(n.hi \div ENCODING_LEN,
        (n.lo \div ENCODING_LEN) + (n.hi % ENCODING_LEN) * (Limb \div ENCODING_LEN))

\* carry + digit * 32^index for a non-negative integer carry, digit in 0..31.
AddDigit(carry, digit, index) ==
    IF index < LimbDigits
    THEN LET lo == carry.lo + digit * ENCODING_LEN ^ index
         IN  Num(carry.hi + lo \div Limb, lo % Limb)
    ELSE Num(carry.hi + digit * ENCODING_LEN ^ (index - LimbDigits), carry.lo)

(***************************************************************************)
(* Outcomes of a call: a returned value or a thrown error                  *)
(***************************************************************************)

ReturnStr(str) == [ok |-> TRUE, val |-> str, err |-> ""]
ThrowStr(msg) == [ok |-> FALSE, val |-> << >>, err |-> msg]
ReturnNum(n) == [ok |-> TRUE, val |-> n, err |-> ""]
ThrowNum(msg) == [ok |-> FALSE, val |-> Undefined, err |-> msg]

ErrNaN == "timestamp must be a number"
ErrTooLarge == "cannot encode a timestamp larger than 2^48 - 1"
ErrNegative == "timestamp must be positive"
ErrNotInteger == "timestamp must be an integer"
ErrTooLong == "Base32 value to increment cannot be longer than 16 characters"
ErrMaximum == "Cannot increment Base32 maximum value"
ErrEncoded == "Incorrectly encoded string"
ErrFailed == "Failed incrementing string"
ErrMalformed == "Malformed ULID"
ErrInvalidChar == "Time decode error: Invalid character"
ErrTimeTooLarge == "Malformed ULID: timestamp too large"
ErrTypeError == "TypeError: Cannot read properties of undefined"

(***************************************************************************)
(* The functions of the source                                             *)
(***************************************************************************)

\* webCryptoPRNG: the byte delivered by crypto.getRandomValues over 0xff.
webCryptoPRNG(byte) == [num |-> byte, den |-> 255]

\* randomChar without the clamp of 32 to 31.
randomCharUnclamped(byte) ==
    LET prng == webCryptoPRNG(byte)
        rand == (prng.num * ENCODING_LEN) \div prng.den
    IN  charAt(ENCODING, rand)

\* randomChar with Math.ceil for Math.floor.
randomCharCeiling(byte) ==
    LET prng == webCryptoPRNG(byte)
        ceil == (prng.num * ENCODING_LEN + prng.den - 1) \div prng.den
        rand == IF ceil = ENCODING_LEN THEN ENCODING_LEN - 1 ELSE ceil
    IN  charAt(ENCODING, rand)

\* randomChar: floor(prng * 32), 32 clamped to 31, looked up in ENCODING.
randomChar(byte) ==
    LET prng == webCryptoPRNG(byte)
        floor == (prng.num * ENCODING_LEN) \div prng.den
        rand == IF floor = ENCODING_LEN THEN ENCODING_LEN - 1 ELSE floor
    IN  charAt(ENCODING, rand)

\* encodeRandom: len draws, each new character put in front of the string.
\* bytes are the bytes the random source delivers, in the order drawn.
RECURSIVE encodeRandomLoop(_, _, _)
encodeRandomLoop(len, bytes, str) ==
    IF len > 0
    THEN encodeRandomLoop(len - 1, Tail(bytes), randomChar(Head(bytes)) \o str)
    ELSE str
encodeRandom(len, bytes) == encodeRandomLoop(len, bytes, << >>)

\* validateTimestamp: "" when it returns, the message when it throws.
\* isNaN, > and < convert their operand to a number, Number.isInteger does
\* not.
validateTimestamp(timestamp) ==
    IF IsNaN(ToNumber(timestamp)) THEN ErrNaN
    ELSE IF NumGT(ToNumber(timestamp), TIME_MAX) THEN ErrTooLarge
    ELSE IF NumLT(ToNumber(timestamp), Zero) THEN ErrNegative
    ELSE IF IsInteger(timestamp) = FALSE THEN ErrNotInteger
    ELSE ""

\* encodeTime putting each digit after the string instead of in front of it.
RECURSIVE encodeTimeLoopAppending(_, _, _)
encodeTimeLoopAppending(timestamp, currentLen, str) ==
    IF currentLen > 0
    THEN LET mod == Mod32(timestamp)
         IN  encodeTimeLoopAppending(Div32(timestamp), currentLen - 1,
                                     str \o charAt(ENCODING, mod))
    ELSE str
encodeTimeAppending(timestamp, len) ==
    LET invalid == validateTimestamp(timestamp)
    IN  IF invalid # "" THEN ThrowStr(invalid)
        ELSE ReturnStr(encodeTimeLoopAppending(timestamp, len, << >>))

\* encodeTime: validate, then len times take % 32 as the next digit from the
\* right and divide by 32.
RECURSIVE encodeTimeLoop(_, _, _)
encodeTimeLoop(timestamp, currentLen, str) ==
    IF currentLen > 0
    THEN LET mod == Mod32(timestamp)
         IN  encodeTimeLoop(Div32(timestamp), currentLen - 1,
                            charAt(ENCODING, mod) \o str)
    ELSE str
\* encodeTime without the call of validateTimestamp.
encodeTimeUnvalidated(timestamp, len) ==
    ReturnStr(encodeTimeLoop(timestamp, len, << >>))

encodeTime(timestamp, len) ==
    LET invalid == validateTimestamp(timestamp)
    IN  IF invalid # "" THEN ThrowStr(invalid)
        ELSE ReturnStr(encodeTimeLoop(timestamp, len, << >>))

\* replaceCharAt
replaceCharAt(str, index, char) ==
    IF index > Len(str) - 1 THEN str
    ELSE Substr(str, 0, index) \o <<char>> \o SubstrFrom(str, index + 1)

\* The while loop leaving a Z in place when it carries.
RECURSIVE incrementLoopKeepingZ(_, _)
incrementLoopKeepingZ(output, index) ==
    IF ~(index >= 0) THEN ThrowStr(ErrFailed)
    ELSE LET i == index - 1
             char == At(output, i)
             charIndex == IndexOf(ENCODING, char)
             maxCharIndex == ENCODING_LEN - 1
         IN  IF charIndex = -1 THEN ThrowStr(ErrEncoded)
             ELSE IF charIndex = maxCharIndex
                  THEN incrementLoopKeepingZ(output, i)
                  ELSE ReturnStr(replaceCharAt(output, i,
                                                 At(ENCODING, charIndex + 1)))

\* incrementBase32: the while loop, entered with the value of index before
\* the test `index-- >= 0`; it runs while done is undefined.
RECURSIVE incrementLoop(_, _)
incrementLoop(output, index) ==
    IF ~(index >= 0) THEN ThrowStr(ErrFailed)
    ELSE LET i == index - 1
             char == At(output, i)
             charIndex == IndexOf(ENCODING, char)
             maxCharIndex == ENCODING_LEN - 1
         IN  IF charIndex = -1 THEN ThrowStr(ErrEncoded)
             ELSE IF charIndex = maxCharIndex
                  THEN incrementLoop(replaceCharAt(output, i, At(ENCODING, 0)), i)
                  ELSE ReturnStr(replaceCharAt(output, i,
                                                 At(ENCODING, charIndex + 1)))

\* incrementBase32 without the test for the maximum value before the loop.
incrementBase32WithoutMaximum(str) ==
    IF str = UndefinedStr THEN ThrowStr(ErrTypeError)
    ELSE IF Len(str) > RANDOM_LEN THEN ThrowStr(ErrTooLong)
    ELSE incrementLoop(str, Len(str))

\* incrementBase32(str); reading .length of the unassigned lastRandom is a
\* TypeError.
incrementBase32(str) ==
    IF str = UndefinedStr THEN ThrowStr(ErrTypeError)
    ELSE IF Len(str) > RANDOM_LEN THEN ThrowStr(ErrTooLong)
    ELSE IF str = Repeat("Z", RANDOM_LEN) THEN ThrowStr(ErrMaximum)
    ELSE incrementLoop(str, Len(str))

\* The reduce over the characters as they stand, without reverse().
RECURSIVE decodeReduceForward(_, _, _)
decodeReduceForward(chars, index, carry) ==
    IF index >= Len(chars) THEN ReturnNum(carry)
    ELSE LET char == chars[index + 1]
             encodingIndex == IndexOf(ENCODING, char)
         IN  IF encodingIndex = -1 THEN ThrowNum(ErrInvalidChar)
             ELSE decodeReduceForward(chars, index + 1,
                                      AddDigit(carry, encodingIndex, index))

\* decodeTime: the length check, then the reduce over the reversed first
\* TIME_LEN characters (index 0 is the last of them), then the range check.
RECURSIVE decodeReduce(_, _, _)
decodeReduce(chars, index, carry) ==
    IF index >= Len(chars) THEN ReturnNum(carry)
    ELSE LET char == chars[Len(chars) - index]
             encodingIndex == IndexOf(ENCODING, char)
         IN  IF encodingIndex = -1 THEN ThrowNum(ErrInvalidChar)
             ELSE decodeReduce(chars, index + 1, AddDigit(carry, encodingIndex, index))
\* decodeTime checking the length after the characters and the range.
decodeTimeLengthLast(id) ==
    LET time == decodeReduce(Substr(id, 0, TIME_LEN), 0, Zero)
    IN  IF ~time.ok THEN time
        ELSE IF NumGT(time.val, TIME_MAX) THEN ThrowNum(ErrTimeTooLarge)
        ELSE IF Len(id) # TIME_LEN + RANDOM_LEN THEN ThrowNum(ErrMalformed)
        ELSE time

\* decodeTime rejecting time >= TIME_MAX.
decodeTimeRejectsMax(id) ==
    IF Len(id) # TIME_LEN + RANDOM_LEN THEN ThrowNum(ErrMalformed)
    ELSE LET time == decodeReduce(Substr(id, 0, TIME_LEN), 0, Zero)
         IN  IF ~time.ok THEN time
             ELSE IF ~NumLT(time.val, TIME_MAX) THEN ThrowNum(ErrTimeTooLarge)
             ELSE time

decodeTime(id) ==
    IF Len(id) # TIME_LEN + RANDOM_LEN THEN ThrowNum(ErrMalformed)
    ELSE LET time == decodeReduce(Substr(id, 0, TIME_LEN), 0, Zero)
         IN  IF ~time.ok THEN time
             ELSE IF NumGT(time.val, TIME_MAX) THEN ThrowNum(ErrTimeTooLarge)
             ELSE time

(***************************************************************************)
(* ulidFactory and the two closures it returns                             *)
(***************************************************************************)

\* The argument of ulidFactory: absent, or an object whose monotonic
\* property is absent ("undefined"), true or false.
NoArgs == [isObject |-> FALSE, monotonic |-> "undefined"]
EmptyArgs == [isObject |-> TRUE, monotonic |-> "undefined"]
MonotonicArgs(flag) ==
    [isObject |-> TRUE, monotonic |-> IF flag THEN "true" ELSE "false"]
FactoryArgs == {NoArgs, EmptyArgs, MonotonicArgs(TRUE), MonotonicArgs(FALSE)}

\* The factory defaulting to the non-monotonic generator.
ulidFactoryDefaultFalse(args) ==
    LET property == IF args.isObject THEN args.monotonic ELSE "undefined"
    IN  IF property = "undefined" THEN FALSE ELSE property = "true"

\* const monotonic = args?.monotonic ?? true
ulidFactory(args) ==
    LET property == IF args.isObject THEN args.monotonic ELSE "undefined"
    IN  IF property = "undefined" THEN TRUE ELSE property = "true"

\* timestamp || Date.now(): the clock is read only if timestamp is falsy.
timestampOrNow(timestamp, now) == IF Truthy(timestamp) THEN timestamp ELSE now
ReadsClock(timestamp) == ~Truthy(timestamp)

\* What one call of a generator does: the closure's variables after the call,
\* the random bytes it consumed and what it returned or threw.
Effect(time, random, drawn, result) ==
    [lastTime |-> time, lastRandom |-> random, drawn |-> drawn, result |-> result]

\* time + random, where encodeTime may have thrown.
Concat(time, random) == IF time.ok THEN ReturnStr(time.val \o random) ELSE time

\* The monotonic closure drawing a fresh random component also when the
\* resolved timestamp equals lastTime (>= for >).
ulidMonotonicFreshOnEqual(lt, lr, timestamp, now, bytes) ==
    LET resolved == timestampOrNow(timestamp, now)
        invalid == validateTimestamp(resolved)
    IN  IF invalid # "" THEN Effect(lt, lr, << >>, ThrowStr(invalid))
        ELSE IF ~NumLT(resolved, lt)
        THEN LET random == encodeRandom(RANDOM_LEN, bytes)
             IN  Effect(resolved, random, bytes,
                        Concat(encodeTime(resolved, TIME_LEN), random))
        ELSE LET random == incrementBase32(lr)
             IN  IF ~random.ok THEN Effect(lt, lr, << >>, random)
                 ELSE Effect(lt, random.val, << >>,
                             Concat(encodeTime(lt, TIME_LEN), random.val))

\* The monotonic closure encoding the resolved timestamp, not lastTime, when
\* it increments.
ulidMonotonicEncodesResolved(lt, lr, timestamp, now, bytes) ==
    LET resolved == timestampOrNow(timestamp, now)
        invalid == validateTimestamp(resolved)
    IN  IF invalid # "" THEN Effect(lt, lr, << >>, ThrowStr(invalid))
        ELSE IF NumGT(resolved, lt)
        THEN LET random == encodeRandom(RANDOM_LEN, bytes)
             IN  Effect(resolved, random, bytes,
                        Concat(encodeTime(resolved, TIME_LEN), random))
        ELSE LET random == incrementBase32(lr)
             IN  IF ~random.ok THEN Effect(lt, lr, << >>, random)
                 ELSE Effect(lt, random.val, << >>,
                             Concat(encodeTime(resolved, TIME_LEN), random.val))

\* The monotonic closure returning the fresh random component without
\* storing it in lastRandom.
ulidMonotonicForgetsRandom(lt, lr, timestamp, now, bytes) ==
    LET resolved == timestampOrNow(timestamp, now)
        invalid == validateTimestamp(resolved)
    IN  IF invalid # "" THEN Effect(lt, lr, << >>, ThrowStr(invalid))
        ELSE IF NumGT(resolved, lt)
        THEN LET random == encodeRandom(RANDOM_LEN, bytes)
             IN  Effect(resolved, lr, bytes,
                        Concat(encodeTime(resolved, TIME_LEN), random))
        ELSE LET random == incrementBase32(lr)
             IN  IF ~random.ok THEN Effect(lt, lr, << >>, random)
                 ELSE Effect(lt, random.val, << >>,
                             Concat(encodeTime(lt, TIME_LEN), random.val))

\* The monotonic closure assigning lastTime before it increments, so that a
\* failed increment leaves the resolved timestamp behind.
ulidMonotonicAssignsFirst(lt, lr, timestamp, now, bytes) ==
    LET resolved == timestampOrNow(timestamp, now)
        invalid == validateTimestamp(resolved)
    IN  IF invalid # "" THEN Effect(lt, lr, << >>, ThrowStr(invalid))
        ELSE IF NumGT(resolved, lt)
        THEN LET random == encodeRandom(RANDOM_LEN, bytes)
             IN  Effect(resolved, random, bytes,
                        Concat(encodeTime(resolved, TIME_LEN), random))
        ELSE LET random == incrementBase32(lr)
             IN  IF ~random.ok THEN Effect(resolved, lr, << >>, random)
                 ELSE Effect(lt, random.val, << >>,
                             Concat(encodeTime(lt, TIME_LEN), random.val))

\* The closure of the monotonic branch, called with lastTime = lt and
\* lastRandom = lr.
ulidMonotonic(lt, lr, timestamp, now, bytes) ==
    LET resolved == timestampOrNow(timestamp, now)
        invalid == validateTimestamp(resolved)
    IN  IF invalid # "" THEN Effect(lt, lr, << >>, ThrowStr(invalid))
        ELSE IF NumGT(resolved, lt)
        THEN LET random == encodeRandom(RANDOM_LEN, bytes)
             IN  Effect(resolved, random, bytes,
                        Concat(encodeTime(resolved, TIME_LEN), random))
        ELSE LET random == incrementBase32(lr)
             IN  IF ~random.ok THEN Effect(lt, lr, << >>, random)
                 ELSE Effect(lt, random.val, << >>,
                             Concat(encodeTime(lt, TIME_LEN), random.val))

\* The first step comparing with >= for >.
ulidMonotonicCompareOrEqual(lt, timestamp, now) ==
    LET resolved == timestampOrNow(timestamp, now)
        invalid == validateTimestamp(resolved)
    IN  [invalid |-> invalid, resolved |-> resolved,
         forward |-> invalid = "" /\ ~NumLT(resolved, lt)]

\* The monotonic closure in two steps, as it runs when the runtime may
\* switch to another caller between its statements.  First step: resolve,
\* validate and compare with lastTime; forward says which branch was chosen.
ulidMonotonicCompare(lt, timestamp, now) ==
    LET resolved == timestampOrNow(timestamp, now)
        invalid == validateTimestamp(resolved)
    IN  [invalid |-> invalid, resolved |-> resolved,
         forward |-> invalid = "" /\ NumGT(resolved, lt)]

\* Second step: the body of the branch chosen, run with the lastTime and
\* lastRandom of the moment it runs.
ulidMonotonicUpdate(lt, lr, resolved, forward, bytes) ==
    IF forward
    THEN LET random == encodeRandom(RANDOM_LEN, bytes)
         IN  Effect(resolved, random, bytes,
                    Concat(encodeTime(resolved, TIME_LEN), random))
    ELSE LET random == incrementBase32(lr)
         IN  IF ~random.ok THEN Effect(lt, lr, << >>, random)
             ELSE Effect(lt, random.val, << >>,
                         Concat(encodeTime(lt, TIME_LEN), random.val))

\* The non-monotonic branch returning the stateful closure as well.
ulidNonMonotonicStateful(lt, lr, timestamp, now, bytes) ==
    ulidMonotonic(lt, lr, timestamp, now, bytes)

\* The closure of the non-monotonic branch; it has no variables, lt and lr
\* are handed through untouched.
ulidNonMonotonic(lt, lr, timestamp, now, bytes) ==
    LET resolved == timestampOrNow(timestamp, now)
        invalid == validateTimestamp(resolved)
    IN  IF invalid # "" THEN Effect(lt, lr, << >>, ThrowStr(invalid))
        ELSE Effect(lt, lr, bytes,
                    Concat(encodeTime(resolved, TIME_LEN),
                           encodeRandom(RANDOM_LEN, bytes)))

(***************************************************************************)
(* Bounds and the inputs the model draws from                              *)
(***************************************************************************)

\* The number of generator calls in one behaviour.
MaxCalls == 3

\* 1469918176385, the timestamp of the tests.
TEST_TIME == Num(43806, 32728193)

\* Timestamps a caller passes: omitted, NaN, 0, the timestamp of the tests,
\* 2^48 - 1, 2^48, -1, 100.1.
TimestampInputs ==
    { Undefined, NaN, Zero, TEST_TIME, TIME_MAX,
      Num(2 ^ 23, 0), Neg(0, 1), Frac(0, 100) }

\* Values Date.now() returns (0 under a fake clock started at the epoch).
ClockReads == { Zero, TEST_TIME }

\* Sixteen bytes from the random source, in the order drawn: all zero (the
\* stub of the tests), all 0xff (the maximum random component) and two 0xff
\* then zeros (a component ending in ZZ, whose increment carries).
RandomDraws ==
    { [i \in 1..RANDOM_LEN |-> 0],
      [i \in 1..RANDOM_LEN |-> 255],
      [i \in 1..RANDOM_LEN |-> IF i <= 2 THEN 255 ELSE 0] }

(***************************************************************************)
(* State                                                                   *)
(***************************************************************************)

VARIABLES
    args,         \* instance -> the argument its factory call was given
    monotonic,    \* instance -> the constant `monotonic` of its factory call
    lastTime,     \* instance -> the closure variable lastTime
    lastRandom,   \* instance -> the closure variable lastRandom
    ids,          \* instance -> the IDs it returned so far, oldest first
    calls,        \* instance -> {resolved timestamp, bytes drawn, ID returned}
    last,         \* instance -> its last call: the inputs and the outcome
    ncalls,       \* the number of generator calls made
    decodeId,     \* the last argument of decodeTime
    decodeResult, \* what decodeTime returned or threw for it
    applied,      \* the last direct call of a private function and its outcome
    inCall,       \* caller -> the call it is in the middle of, if any
    overlapped,   \* a call began while another caller was in the middle of one
    history       \* instance -> the calls made to it, where they are recorded

vars ==
    << args, monotonic, lastTime, lastRandom, ids, calls, last, ncalls,
       decodeId, decodeResult, applied, inCall, overlapped, history >>

Instances == DOMAIN args

\* The record of a generator call: what was passed, whether and what the
\* clock was read, the resolved timestamp, lastTime and lastRandom when the
\* call began, the bytes drawn, the outcome; seq is the number of the call,
\* 0 before the first one; afterOverflow says that when the call began a call
\* of the instance had thrown the error of the maximum value and none had
\* returned since.
NoCall ==
    [seq |-> 0, timestamp |-> Undefined, clockRead |-> FALSE,
     clock |-> Undefined, resolved |-> Undefined, timeBefore |-> Zero,
     randomBefore |-> UndefinedStr, afterOverflow |-> FALSE, drawn |-> << >>,
     result |-> ThrowStr("no call")]
NoDecode == ThrowNum("no call")

\* The record of a direct call of validateTimestamp, encodeTime,
\* incrementBase32 or randomChar (exportedForTesting): the function, its
\* arguments (for randomChar the byte the random source delivered) and what
\* it returned or threw; the arguments it does not take stay as here.
NoApplied ==
    [fn |-> "none", timestamp |-> Undefined, len |-> 0, str |-> << >>,
     byte |-> 0, result |-> ThrowStr("no call")]

\* The callers that share a generator, and a caller that is in no call.
Callers == {"first", "second"}
Idle ==
    [stage |-> "idle", instance |-> 0, seq |-> 0, timestamp |-> Undefined,
     now |-> Undefined, resolved |-> Undefined, forward |-> FALSE]

\* The state after ulidFactory was called once for every instance of a.
Created(a) ==
    /\ args = a
    /\ monotonic = [i \in DOMAIN a |-> ulidFactory(a[i])]
    /\ lastTime = [i \in DOMAIN a |-> Zero]
    /\ lastRandom = [i \in DOMAIN a |-> UndefinedStr]
    /\ ids = [i \in DOMAIN a |-> << >>]
    /\ calls = [i \in DOMAIN a |-> { }]
    /\ last = [i \in DOMAIN a |-> NoCall]
    /\ ncalls = 0
    /\ decodeId = << >>
    /\ decodeResult = NoDecode
    /\ applied = NoApplied
    /\ inCall = [c \in Callers |-> Idle]
    /\ overlapped = FALSE
    /\ history = [i \in DOMAIN a |-> << >>]

\* One generator, of either variant.
Init == \E flag \in BOOLEAN : Created(<< MonotonicArgs(flag) >>)

\* Every instance reading lastTime and lastRandom of the first one, as if
\* the two variables were declared once outside the factory.
CallSharingState(i, timestamp, now, bytes) ==
    IF monotonic[i]
    THEN ulidMonotonic(lastTime[1], lastRandom[1], timestamp, now, bytes)
    ELSE ulidNonMonotonic(lastTime[1], lastRandom[1], timestamp, now, bytes)

\* The effect of calling instance i.
Call(i, timestamp, now, bytes) ==
    IF monotonic[i]
    THEN ulidMonotonic(lastTime[i], lastRandom[i], timestamp, now, bytes)
    ELSE ulidNonMonotonic(lastTime[i], lastRandom[i], timestamp, now, bytes)

\* The record of call number seq of instance i with effect e.
CallRecord(i, seq, timestamp, now, e) ==
    [seq |-> seq, timestamp |-> timestamp,
     clockRead |-> ReadsClock(timestamp),
     clock |-> IF ReadsClock(timestamp) THEN now ELSE Undefined,
     resolved |-> timestampOrNow(timestamp, now),
     timeBefore |-> lastTime[i], randomBefore |-> lastRandom[i],
     afterOverflow |-> /\ ~last[i].result.ok
                       /\ (last[i].result.err = ErrMaximum \/ last[i].afterOverflow),
     drawn |-> e.drawn, result |-> e.result]

\* Every instance of the set called is called with timestamp while the
\* clock reads now and the random source would deliver bytes.
Calls(called, timestamp, now, bytes) ==
    /\ ncalls < MaxCalls
    /\ \E e \in {[i \in called |-> Call(i, timestamp, now, bytes)]} :
           /\ lastTime' = [i \in Instances |->
                  IF i \in called THEN e[i].lastTime ELSE lastTime[i]]
           /\ lastRandom' = [i \in Instances |->
                  IF i \in called THEN e[i].lastRandom ELSE lastRandom[i]]
           /\ ids' = [i \in Instances |->
                  IF i \in called /\ e[i].result.ok
                  THEN Append(ids[i], e[i].result.val) ELSE ids[i]]
           /\ calls' = [i \in Instances |->
                  IF i \in called /\ e[i].result.ok
                  THEN calls[i] \cup
                         {[resolved |-> timestampOrNow(timestamp, now),
                           drawn |-> e[i].drawn, id |-> e[i].result.val]}
                  ELSE calls[i]]
           /\ last' = [i \in Instances |->
                  IF i \in called
                  THEN CallRecord(i, ncalls + 1, timestamp, now, e[i])
                  ELSE last[i]]
    /\ ncalls' = ncalls + 1
    /\ UNCHANGED << args, monotonic, decodeId, decodeResult, applied, inCall,
                    overlapped >>

\* The same, keeping no record of the calls beyond the last one.
Step(called, timestamp, now, bytes) ==
    Calls(called, timestamp, now, bytes) /\ UNCHANGED history

\* One call of instance i.
Generate(i, timestamp, now, bytes) == Step({i}, timestamp, now, bytes)

\* What Date.now() returns in a call with this timestamp, if it is called.
ClockFor(timestamp) == IF ReadsClock(timestamp) THEN ClockReads ELSE {Undefined}

Next ==
    \E i \in Instances, timestamp \in TimestampInputs, bytes \in RandomDraws :
        \E now \in ClockFor(timestamp) : Generate(i, timestamp, now, bytes)

Spec == Init /\ [][Next]_vars

(***************************************************************************)
(* The factory's arguments compared: four generators, one per argument,    *)
(* all given the same calls                                                *)
(***************************************************************************)

InitFactory ==
    Created(<< NoArgs, EmptyArgs, MonotonicArgs(TRUE), MonotonicArgs(FALSE) >>)

GenerateAll(timestamp, now, bytes) == Step(Instances, timestamp, now, bytes)

NextFactory ==
    \E timestamp \in TimestampInputs, bytes \in RandomDraws :
        \E now \in ClockFor(timestamp) : GenerateAll(timestamp, now, bytes)

SpecFactory == InitFactory /\ [][NextFactory]_vars

(***************************************************************************)
(* decodeTime applied to strings                                           *)
(***************************************************************************)

\* First ten characters: 0, 1, the timestamp of the tests, the maximum,
\* the maximum plus one, the largest ten digits, a carry across the limbs,
\* then prefixes with characters outside the alphabet (I, U, lower case).
TimePrefixes ==
    { << "0","0","0","0","0","0","0","0","0","0" >>,
      << "0","0","0","0","0","0","0","0","0","1" >>,
      << "0","1","A","R","Y","Z","6","S","4","1" >>,
      << "7","Z","Z","Z","Z","Z","Z","Z","Z","Z" >>,
      << "8","0","0","0","0","0","0","0","0","0" >>,
      << "Z","Z","Z","Z","Z","Z","Z","Z","Z","Z" >>,
      << "0","0","0","0","1","0","0","0","0","0" >>,
      << "0","0","0","0","0","0","0","0","0","I" >>,
      << "I","0","0","0","0","0","0","0","0","0" >>,
      << "8","U","0","0","0","0","0","0","0","0" >>,
      << "Z","Z","Z","Z","Z","Z","Z","Z","Z","u" >>,
      << "0","1","a","r","y","z","6","s","4","1" >> }

\* What follows them: sixteen characters inside and outside the alphabet,
\* and fifteen or seventeen characters.
Suffixes ==
    { Repeat("0", RANDOM_LEN), Repeat("Z", RANDOM_LEN),
      << "T","S","V","4","R","R","F","F","Q","6","9","G","5","F","A","V" >>,
      Repeat("I", RANDOM_LEN), Repeat("z", RANDOM_LEN),
      Repeat("0", RANDOM_LEN - 1), Repeat("U", RANDOM_LEN - 1),
      Repeat("0", RANDOM_LEN + 1), Repeat("U", RANDOM_LEN + 1) }

\* The strings decodeTime is applied to, with the empty string, "FFFF" and
\* ten characters alone.
DecodeInputs ==
    { p \o s : p \in TimePrefixes, s \in Suffixes }
        \cup { << >>, << "F","F","F","F" >>, << "I","I","I","I" >> }
        \cup TimePrefixes

InitDecode == Created(<< >>)

DecodeTime(id) ==
    /\ decodeId' = id
    /\ decodeResult' = decodeTime(id)
    /\ UNCHANGED << args, monotonic, lastTime, lastRandom, ids, calls, last,
                    ncalls, applied, inCall, overlapped, history >>

NextDecode == \E id \in DecodeInputs : DecodeTime(id)

SpecDecode == InitDecode /\ [][NextDecode]_vars

(***************************************************************************)
(* validateTimestamp called directly                                       *)
(***************************************************************************)

\* Numbers around 0, the timestamp of the tests and 2^48, each of them also
\* negated and with a fraction added; the infinities; NaN and undefined;
\* null, true, false, "test", "", "123", "-1", "1.5", "281474976710656".
ValidateInputs ==
    { [neg |-> n, frac |-> f, hi |-> h, lo |-> l, inf |-> FALSE,
       kind |-> "number"] :
          n \in BOOLEAN, f \in BOOLEAN,
          h \in {0, 1, TEST_TIME.hi, TIME_MAX.hi, TIME_MAX.hi + 1, TIME_MAX.hi + 5},
          l \in {0, 1, 100, Limb - 1} }
        \cup { Infinity, [Infinity EXCEPT !.neg = TRUE], NaN, Undefined }
        \cup { Null, Bool(TRUE), Bool(FALSE), Text, NumericString(Zero),
               NumericString(Num(0, 123)), NumericString(Neg(0, 1)),
               NumericString(Frac(0, 1)), NumericString(Num(TIME_MAX.hi + 1, 0)) }

InitValidate == Created(<< >>)

\* validateTimestamp(timestamp), which returns undefined or throws.
ValidateTimestamp(timestamp) ==
    /\ \E invalid \in {validateTimestamp(timestamp)} :
           applied' = [NoApplied EXCEPT
                          !.fn = "validateTimestamp",
                          !.timestamp = timestamp,
                          !.result = IF invalid = "" THEN ReturnStr(<< >>)
                                     ELSE ThrowStr(invalid)]
    /\ UNCHANGED << args, monotonic, lastTime, lastRandom, ids, calls, last,
                    ncalls, decodeId, decodeResult, inCall, overlapped,
                    history >>

NextValidate == \E timestamp \in ValidateInputs : ValidateTimestamp(timestamp)

SpecValidate == InitValidate /\ [][NextValidate]_vars

(***************************************************************************)
(* encodeTime called directly                                              *)
(***************************************************************************)

\* 1470118279201 and 1470264322240, the timestamps the tests encode with
\* widths 8 and 12.
TRUNCATED_TIME == Num(43812, 31504417)
PADDED_TIME == Num(43817, 9775296)

\* Valid timestamps: small ones, ones that differ in one limb only, the
\* timestamps of the tests, the largest.
ValidTimes ==
    { Num(h, l) : h \in {0, 1, ENCODING_LEN, TEST_TIME.hi, TIME_MAX.hi},
                  l \in {0, 1, ENCODING_LEN - 1, ENCODING_LEN, TEST_TIME.lo,
                         Limb - 1} }
        \cup { TRUNCATED_TIME, PADDED_TIME }

\* What encodeTime is given: the valid timestamps, and -1, 100.1, 2^48, NaN,
\* Infinity, undefined.
EncodeInputs ==
    ValidTimes
        \cup { Neg(0, 1), Frac(0, 100), Num(TIME_MAX.hi + 1, 0), NaN, Infinity,
               Undefined }

\* The widths asked for: those of the tests (8, 10, 12), one digit and one
\* limb.
EncodeWidths == {1, LimbDigits, 8, TIME_LEN, 12}

InitEncode == Created(<< >>)

\* encodeTime(timestamp, len)
EncodeTime(timestamp, len) ==
    /\ applied' = [NoApplied EXCEPT !.fn = "encodeTime",
                                    !.timestamp = timestamp,
                                    !.len = len,
                                    !.result = encodeTime(timestamp, len)]
    /\ UNCHANGED << args, monotonic, lastTime, lastRandom, ids, calls, last,
                    ncalls, decodeId, decodeResult, inCall, overlapped,
                    history >>

NextEncode ==
    \E timestamp \in EncodeInputs, len \in EncodeWidths :
        EncodeTime(timestamp, len)

SpecEncode == InitEncode /\ [][NextEncode]_vars

(***************************************************************************)
(* incrementBase32 called directly                                         *)
(***************************************************************************)

\* Strings over the alphabet of every width from 1 to 16: all zeros, all Z
\* (the maximum of the width), zeros ending in 9 and in Z, Y followed by Z's
\* (a carry through the whole string), Z's ending in Y (the predecessor of
\* the maximum), and a carry in the middle.
WellFormedInputs ==
    UNION { { Repeat("0", w), Repeat("Z", w),
              Repeat("0", w - 1) \o << "9" >>,
              Repeat("0", w - 1) \o << "Z" >>,
              << "Y" >> \o Repeat("Z", w - 1),
              Repeat("Z", w - 1) \o << "Y" >>,
              Repeat("7", w - (w \div 2)) \o Repeat("Z", w \div 2) } :
            w \in 1..RANDOM_LEN }

\* Strings of 1, 2 and 16 characters with one character outside the alphabet
\* (I, U, lower case) at each position among zeros, among Z's.
IllFormedInputs ==
    UNION { { [k \in 1..w |-> IF k = p THEN bad ELSE base] :
                  p \in 1..w, bad \in {"I", "U", "z"}, base \in {"0", "Z"} } :
            w \in {1, 2, RANDOM_LEN} }

\* With the empty string and strings of 17 characters.
IncrementInputs ==
    WellFormedInputs \cup IllFormedInputs
        \cup { << >>, Repeat("0", RANDOM_LEN + 1), Repeat("Z", RANDOM_LEN + 1) }

InitIncrement == Created(<< >>)

\* incrementBase32(str)
IncrementBase32(str) ==
    /\ applied' = [NoApplied EXCEPT !.fn = "incrementBase32",
                                    !.str = str,
                                    !.result = incrementBase32(str)]
    /\ UNCHANGED << args, monotonic, lastTime, lastRandom, ids, calls, last,
                    ncalls, decodeId, decodeResult, inCall, overlapped,
                    history >>

NextIncrement == \E str \in IncrementInputs : IncrementBase32(str)

SpecIncrement == InitIncrement /\ [][NextIncrement]_vars

(***************************************************************************)
(* Two callers on one monotonic generator whose calls may interleave       *)
(* between the comparison with lastTime and the assignments                *)
(***************************************************************************)

\* Timestamps the callers pass: omitted, the timestamp of the tests,
\* 2^48 - 1 and -1.
CallerTimestamps == { Undefined, TEST_TIME, TIME_MAX, Neg(0, 1) }

InitCallers == Created(<< MonotonicArgs(TRUE) >>)

\* Caller c begins a call of instance i: the timestamp is resolved,
\* validated (the call ends here if validateTimestamp throws) and compared
\* with lastTime.
Compare(c, i, timestamp, now) ==
    /\ ncalls < MaxCalls
    /\ monotonic[i]
    /\ inCall[c].stage = "idle"
    /\ \E cmp \in {ulidMonotonicCompare(lastTime[i], timestamp, now)} :
           IF cmp.invalid # ""
           THEN /\ last' = [last EXCEPT ![i] =
                       CallRecord(i, ncalls + 1, timestamp, now,
                                  Effect(lastTime[i], lastRandom[i], << >>,
                                         ThrowStr(cmp.invalid)))]
                /\ UNCHANGED << inCall, overlapped >>
           ELSE /\ inCall' = [inCall EXCEPT ![c] =
                       [stage |-> "compared", instance |-> i,
                        seq |-> ncalls + 1, timestamp |-> timestamp,
                        now |-> now, resolved |-> cmp.resolved,
                        forward |-> cmp.forward]]
                /\ overlapped' =
                       (overlapped
                          \/ \E other \in Callers \ {c} :
                                 inCall[other].stage = "compared")
                /\ UNCHANGED last
    /\ ncalls' = ncalls + 1
    /\ UNCHANGED << args, monotonic, lastTime, lastRandom, ids, calls,
                    decodeId, decodeResult, applied, history >>

\* Caller c finishes its call: the branch chosen runs, drawing bytes or
\* incrementing, and the call returns or throws.
Update(c, bytes) ==
    /\ inCall[c].stage = "compared"
    /\ \E i \in {inCall[c].instance} :
       \E e \in {ulidMonotonicUpdate(lastTime[i], lastRandom[i],
                                     inCall[c].resolved, inCall[c].forward,
                                     bytes)} :
           /\ lastTime' = [lastTime EXCEPT ![i] = e.lastTime]
           /\ lastRandom' = [lastRandom EXCEPT ![i] = e.lastRandom]
           /\ ids' = [ids EXCEPT ![i] =
                  IF e.result.ok THEN Append(@, e.result.val) ELSE @]
           /\ calls' = [calls EXCEPT ![i] =
                  IF e.result.ok
                  THEN @ \cup {[resolved |-> inCall[c].resolved,
                                drawn |-> e.drawn, id |-> e.result.val]}
                  ELSE @]
           /\ last' = [last EXCEPT ![i] =
                  CallRecord(i, inCall[c].seq, inCall[c].timestamp,
                             inCall[c].now, e)]
    /\ inCall' = [inCall EXCEPT ![c] = Idle]
    /\ UNCHANGED << args, monotonic, ncalls, decodeId, decodeResult, applied,
                    overlapped, history >>

NextCallers ==
    \/ \E c \in Callers, i \in Instances, timestamp \in CallerTimestamps :
           \E now \in ClockFor(timestamp) : Compare(c, i, timestamp, now)
    \/ \E c \in Callers, bytes \in RandomDraws : Update(c, bytes)

SpecCallers == InitCallers /\ [][NextCallers]_vars

(***************************************************************************)
(* Two generators from two factory calls, called in any order              *)
(***************************************************************************)

\* Sixteen bytes from the random source: all zero, all 0xff.
PairDraws == { [i \in 1..RANDOM_LEN |-> 0], [i \in 1..RANDOM_LEN |-> 255] }

InitPair == Created(<< MonotonicArgs(TRUE), MonotonicArgs(TRUE) >>)

\* One call of instance i, recorded with what it was given: the timestamp,
\* the clock reading if the clock was read, the bytes it drew.
GenerateRecorded(i, timestamp, now, bytes) ==
    /\ Calls({i}, timestamp, now, bytes)
    /\ history' = [history EXCEPT ![i] =
           Append(@, [timestamp |-> timestamp, now |-> last'[i].clock,
                      drawn |-> last'[i].drawn])]

NextPair ==
    \E i \in Instances, timestamp \in CallerTimestamps, bytes \in PairDraws :
        \E now \in ClockFor(timestamp) :
            GenerateRecorded(i, timestamp, now, bytes)

SpecPair == InitPair /\ [][NextPair]_vars

(***************************************************************************)
(* randomChar called directly                                              *)
(***************************************************************************)

\* The values of the one element of the Uint8Array the random source fills.
Bytes == 0..255

InitRandom == Created(<< >>)

\* randomChar() while the random source delivers byte.
RandomChar(byte) ==
    /\ applied' = [NoApplied EXCEPT !.fn = "randomChar",
                                    !.byte = byte,
                                    !.result = ReturnStr(randomChar(byte))]
    /\ UNCHANGED << args, monotonic, lastTime, lastRandom, ids, calls, last,
                    ncalls, decodeId, decodeResult, inCall, overlapped,
                    history >>

NextRandom == \E byte \in Bytes : RandomChar(byte)

SpecRandom == InitRandom /\ [][NextRandom]_vars

(***************************************************************************)
(* Properties                                                              *)
(***************************************************************************)

Alphabet == { ENCODING[k] : k \in 1..Len(ENCODING) }
TimePart(id) == SubSeq(id, 1, TIME_LEN)
RandomPart(id) == SubSeq(id, TIME_LEN + 1, Len(id))

\* v * 32 + digit on the limbs.
Times32Plus(v, digit) ==
    Num(v.hi * ENCODING_LEN + v.lo \div (Limb \div ENCODING_LEN),
        (v.lo % (Limb \div ENCODING_LEN)) * ENCODING_LEN + digit)

\* The base-32 value of at most ten alphabet characters, most significant
\* first.
RECURSIVE Base32Value(_)
Base32Value(str) ==
    IF Len(str) = 0 THEN Zero
    ELSE Times32Plus(Base32Value(SubSeq(str, 1, Len(str) - 1)),
                     IndexOf(ENCODING, str[Len(str)]))

\* Instance i has been called, and its last call returned an ID.
Called(i) == last[i].seq > 0
Returned(i) == Called(i) /\ last[i].result.ok

\* C1: on a monotonic instance every returned ID is strictly greater, as a
\* string, than every ID the instance returned before it, whatever the order
\* of the timestamps and whatever the random draws.
C1_StrictlyIncreasing ==
    \A i \in Instances :
        monotonic[i] =>
            \A j, k \in 1..Len(ids[i]) :
                j < k => StrLess(ids[i][j], ids[i][k])

\* A monotonic instance returned three IDs, the last of them for a timestamp
\* before the one it holds.
C1_Witness ==
    \E i \in Instances :
        /\ monotonic[i]
        /\ Len(ids[i]) = 3
        /\ Returned(i)
        /\ NumLT(last[i].resolved, lastTime[i])

\* C2: every ID returned by either variant has 26 characters, all of them
\* among the 32 symbols of the alphabet, and the value of its first ten
\* characters is at most 2^48 - 1.
C2_WellFormedIds ==
    /\ Cardinality(Alphabet) = 32
    /\ \A i \in Instances :
           \A k \in 1..Len(ids[i]) :
               /\ Len(ids[i][k]) = 26
               /\ \A c \in 1..Len(ids[i][k]) : ids[i][k][c] \in Alphabet
               /\ ~NumGT(Base32Value(TimePart(ids[i][k])), TIME_MAX)

\* A generator returned an ID for the largest timestamp with the largest
\* random component.
C2_Witness ==
    \E i \in Instances :
        /\ Returned(i)
        /\ last[i].resolved = TIME_MAX
        /\ last[i].result.val =
               << "7" >> \o Repeat("Z", TIME_LEN - 1) \o Repeat("Z", RANDOM_LEN)

\* The timestamp was passed by the caller (it may still be NaN).
Supplied(timestamp) == timestamp.kind # "undefined"

IsRandom(str) ==
    Len(str) = RANDOM_LEN /\ \A k \in 1..Len(str) : str[k] \in Alphabet
MaxRandom == Repeat("Z", RANDOM_LEN)

\* str plus one as a fixed-width base-32 number below its maximum: the last
\* character that is not Z advances by one symbol, the Z's after it become 0.
PlusOne(str) ==
    LET p == CHOOSE p \in 1..Len(str) :
                 str[p] # "Z" /\ \A q \in (p + 1)..Len(str) : str[q] = "Z"
    IN  [k \in 1..Len(str) |->
            IF k < p THEN str[k]
            ELSE IF k = p THEN ENCODING[IndexOf(ENCODING, str[p]) + 2]
            ELSE "0"]
RECURSIVE Plus(_, _)
Plus(str, k) == IF k = 0 THEN str ELSE Plus(PlusOne(str), k - 1)

\* C4: on a monotonic instance a call whose resolved timestamp is at most
\* lastTime leaves lastTime unchanged and returns encodeTime(lastTime, 10)
\* followed by the previous random component plus one, never the encoding
\* of the older timestamp; the k-th consecutive such call of a stall that
\* began with random component r returns r + k.
C4_HeldTimestampIncrements ==
    \A i \in Instances :
        ( /\ monotonic[i]
          /\ Called(i)
          /\ validateTimestamp(last[i].resolved) = ""
          /\ ~NumGT(last[i].resolved, last[i].timeBefore) )
        => /\ lastTime[i] = last[i].timeBefore
           /\ (IsRandom(last[i].randomBefore) /\ last[i].randomBefore # MaxRandom)
                  => last[i].result.ok
           /\ last[i].result.ok =>
                  \A id \in {last[i].result.val}, n \in {Len(ids[i])} :
                      /\ id = encodeTime(last[i].timeBefore, TIME_LEN).val
                                  \o PlusOne(last[i].randomBefore)
                      /\ lastRandom[i] = PlusOne(last[i].randomBefore)
                      /\ NumLT(last[i].resolved, last[i].timeBefore)
                             => TimePart(id) #
                                    encodeTime(last[i].resolved, TIME_LEN).val
                      /\ \A j \in 1..n :
                             TimePart(ids[i][j]) = TimePart(id)
                                 => RandomPart(id) =
                                        Plus(RandomPart(ids[i][j]), n - j)

\* A stall of a monotonic instance: three IDs with one time part, the last
\* for a timestamp older than lastTime, its random part the first one's
\* plus two.
C4_Witness ==
    \E i \in Instances :
        /\ monotonic[i]
        /\ Len(ids[i]) = 3
        /\ Returned(i)
        /\ NumLT(last[i].resolved, lastTime[i])
        /\ TimePart(ids[i][1]) = TimePart(ids[i][3])
        /\ RandomPart(ids[i][3]) = Plus(RandomPart(ids[i][1]), 2)

\* C5: in both variants the resolved timestamp is the caller's timestamp
\* whenever one is supplied, 0 included, and the clock is read only when the
\* caller omits the timestamp.
C5_SuppliedTimestampIsUsed ==
    \A i \in Instances :
        Called(i) =>
            /\ Supplied(last[i].timestamp)
                   => (last[i].resolved = last[i].timestamp /\ ~last[i].clockRead)
            /\ last[i].clockRead => ~Supplied(last[i].timestamp)

\* C6: a call of either variant whose supplied timestamp is rejected by
\* validateTimestamp (NaN, negative, fractional, above 2^48 - 1) fails with
\* the validator's error and returns no ID.
C6_RejectedTimestampFails ==
    \A i \in Instances :
        ( /\ Called(i)
          /\ Supplied(last[i].timestamp)
          /\ validateTimestamp(last[i].timestamp) # "" )
        => last[i].result = ThrowStr(validateTimestamp(last[i].timestamp))

\* C7: decodeTime fails with 'Malformed ULID' for every string whose length
\* is not 26, also when the string has characters outside the alphabet or a
\* time part that is too large.
C7_WrongLengthIsMalformed ==
    (decodeResult # NoDecode /\ Len(decodeId) # 26)
        => decodeResult = ThrowNum(ErrMalformed)

\* decodeTime was applied to 27 characters that begin with 8U, a time part
\* both too large and outside the alphabet.
C7_Witness ==
    /\ Len(decodeId) = 27
    /\ decodeId[1] = "8"
    /\ decodeId[2] = "U"
    /\ decodeResult.err = ErrMalformed

\* C8: for a 26-character string whose first ten characters are alphabet
\* symbols decodeTime returns their base-32 value if it is at most 2^48 - 1
\* and fails with 'timestamp too large' otherwise, whatever the last sixteen
\* characters are; 7ZZZZZZZZZ is 2^48 - 1, 8000000000 is rejected.
C8_DecodesTimePart ==
    ( /\ decodeResult # NoDecode
      /\ Len(decodeId) = 26
      /\ \A k \in 1..TIME_LEN : decodeId[k] \in Alphabet )
    => LET value == Base32Value(TimePart(decodeId))
       IN  /\ decodeResult = IF NumGT(value, TIME_MAX)
                             THEN ThrowNum(ErrTimeTooLarge)
                             ELSE ReturnNum(value)
           /\ TimePart(decodeId) = << "7" >> \o Repeat("Z", TIME_LEN - 1)
                  => decodeResult = ReturnNum(TIME_MAX)
           /\ TimePart(decodeId) = << "8" >> \o Repeat("0", TIME_LEN - 1)
                  => decodeResult = ThrowNum(ErrTimeTooLarge)

\* decodeTime returned 2^48 - 1 for 7ZZZZZZZZZ followed by sixteen
\* characters outside the alphabet.
C8_Witness ==
    /\ decodeId = << "7" >> \o Repeat("Z", TIME_LEN - 1) \o Repeat("I", RANDOM_LEN)
    /\ decodeResult = ReturnNum(TIME_MAX)

\* Instances i and m have the same variables, history and last call.
SameBehaviour(i, m) ==
    /\ monotonic[i] = monotonic[m]
    /\ lastTime[i] = lastTime[m]
    /\ lastRandom[i] = lastRandom[m]
    /\ ids[i] = ids[m]
    /\ calls[i] = calls[m]
    /\ last[i] = last[m]

\* C9: a generator made with no argument, or with an argument without the
\* monotonic property, behaves on every sequence of calls exactly like one
\* made with monotonic = true; only monotonic = false gives the stateless
\* generator.
C9_DefaultIsMonotonic ==
    /\ \A i, m \in Instances :
           ( /\ args[i] \in {NoArgs, EmptyArgs}
             /\ args[m] = MonotonicArgs(TRUE) )
           => SameBehaviour(i, m)
    /\ \A i \in Instances :
           /\ monotonic[i] <=> args[i] # MonotonicArgs(FALSE)
           /\ (lastTime[i] = Zero /\ lastRandom[i] = UndefinedStr /\ ids[i] # << >>)
                  => args[i] = MonotonicArgs(FALSE)

\* After three calls that returned, the generators without the flag hold the
\* IDs of the monotonic = true one, which met a stall, and the
\* monotonic = false one returned other IDs.
C9_Witness ==
    /\ \A i \in Instances : Len(ids[i]) = 3
    /\ \E i, j, m, f \in Instances :
           /\ args[i] = NoArgs
           /\ args[j] = EmptyArgs
           /\ args[m] = MonotonicArgs(TRUE)
           /\ args[f] = MonotonicArgs(FALSE)
           /\ ids[i] = ids[m]
           /\ ids[j] = ids[m]
           /\ ids[f] # ids[m]
           /\ TimePart(ids[m][2]) = TimePart(ids[m][3])

\* C10: the non-monotonic generator keeps no state; the ID it returns is
\* determined by the resolved timestamp and the bytes drawn in that call,
\* however many calls came before.
C10_NonMonotonicIsStateless ==
    \A i \in Instances :
        ~monotonic[i] =>
            /\ lastTime[i] = Zero
            /\ lastRandom[i] = UndefinedStr
            /\ \A c1, c2 \in calls[i] :
                   (c1.resolved = c2.resolved /\ c1.drawn = c2.drawn)
                       => c1.id = c2.id

\* A non-monotonic generator returned the same ID in its first and third
\* call and a smaller one in between.
C10_Witness ==
    \E i \in Instances :
        /\ ~monotonic[i]
        /\ Len(ids[i]) = 3
        /\ ids[i][1] = ids[i][3]
        /\ StrLess(ids[i][2], ids[i][1])

(***************************************************************************)
(* Exhaustion of the random component                                      *)
(***************************************************************************)

\* The positions in ids[i] of the IDs issued under the timestamp the instance
\* held when its last call began.
HeldIds(i) ==
    { j \in 1..Len(ids[i]) :
          TimePart(ids[i][j]) = encodeTime(last[i].timeBefore, TIME_LEN).val }

\* n > 2^80 = 32^RANDOM_LEN, the number of random components there are,
\* taken four base-32 digits at a time.
MoreThanCapacity(n) ==
    LET chunk == ENCODING_LEN ^ (RANDOM_LEN \div 4)
        q1 == n \div chunk
        q2 == q1 \div chunk
        q3 == q2 \div chunk
        q4 == q3 \div chunk
    IN  q4 > 1 \/ (q4 = 1 /\ (n % chunk # 0 \/ q1 % chunk # 0
                                \/ q2 % chunk # 0 \/ q3 % chunk # 0))

\* The last call of instance i threw the error of the maximum value.
Exhausted(i) == Called(i) /\ last[i].result = ThrowStr(ErrMaximum)

IsNumberValue(x) == x.kind = "number"
\* x > 2^48 - 1, x < 0 and "x has a fractional part", read off the fields.
AboveTimeMax(x) ==
    /\ ~x.neg
    /\ \/ x.inf
       \/ x.hi > TIME_MAX.hi
       \/ x.hi = TIME_MAX.hi /\ x.lo > TIME_MAX.lo
       \/ x.hi = TIME_MAX.hi /\ x.lo = TIME_MAX.lo /\ x.frac
BelowZero(x) == x.neg /\ (x.inf \/ x.hi > 0 \/ x.lo > 0 \/ x.frac)
Fractional(x) == x.frac /\ ~x.inf

\* C12: validateTimestamp returns exactly for the integers of [0, 2^48 - 1];
\* it throws 'must be a number' for every input that is not a number,
\* 'larger than 2^48 - 1' for every number above 2^48 - 1 (+Infinity
\* included), 'must be positive' for every negative number and 'must be an
\* integer' for every fractional one; the four messages differ, and an input
\* that breaks several conditions gets the first of them in this order.
C12_ValidateTimestampKinds ==
    applied.fn = "validateTimestamp" =>
        LET x == applied.timestamp
            r == applied.result
        IN  /\ r.ok <=> ( /\ IsNumberValue(x) /\ ~AboveTimeMax(x)
                          /\ ~BelowZero(x) /\ ~Fractional(x) )
            /\ ~IsNumberValue(x) => r = ThrowStr(ErrNaN)
            /\ (IsNumberValue(x) /\ AboveTimeMax(x)) => r = ThrowStr(ErrTooLarge)
            /\ (IsNumberValue(x) /\ BelowZero(x)) => r = ThrowStr(ErrNegative)
            /\ (IsNumberValue(x) /\ ~AboveTimeMax(x) /\ ~BelowZero(x)
                    /\ Fractional(x)) => r = ThrowStr(ErrNotInteger)
            /\ Cardinality({ErrNaN, ErrTooLarge, ErrNegative, ErrNotInteger}) = 4

(***************************************************************************)
(* encodeTime                                                              *)
(***************************************************************************)

\* encodeTime was called directly with a timestamp validateTimestamp accepts.
EncodedValid ==
    applied.fn = "encodeTime" /\ validateTimestamp(applied.timestamp) = ""

\* C13: for every valid timestamp t, encodeTime(t, 10) is ten alphabet
\* characters that decode, by the reduce of decodeTime, to exactly t; two
\* different timestamps have different encodings, and t < t2 implies
\* encodeTime(t, 10) < encodeTime(t2, 10) as strings.
C13_EncodeDecodeRoundTrip ==
    (EncodedValid /\ applied.len = TIME_LEN) =>
        LET t == applied.timestamp
            str == applied.result.val
        IN  /\ applied.result.ok
            /\ Len(str) = TIME_LEN
            /\ \A k \in 1..Len(str) : str[k] \in Alphabet
            /\ decodeReduce(str, 0, Zero) = ReturnNum(t)
            /\ decodeTime(str \o Repeat("0", RANDOM_LEN)) = ReturnNum(t)
            /\ \A t2 \in ValidTimes :
                   \A str2 \in {encodeTime(t2, TIME_LEN).val} :
                       /\ t # t2 => str # str2
                       /\ NumLT(t, t2) => StrLess(str, str2)
                       /\ NumLT(t2, t) => StrLess(str2, str)

\* encodeTime(1469918176385, 10) returned 01ARYZ6S41, as in the tests.
C13_Witness ==
    /\ applied.fn = "encodeTime"
    /\ applied.timestamp = TEST_TIME
    /\ applied.len = TIME_LEN
    /\ applied.result = ReturnStr(<< "0","1","A","R","Y","Z","6","S","4","1" >>)

\* value needs more than width base-32 digits: value >= 32^width.
NeedsMoreDigits(value, width) ==
    IF width >= TIME_LEN THEN value.hi >= ENCODING_LEN ^ LimbDigits
    ELSE IF width >= LimbDigits
    THEN value.hi >= ENCODING_LEN ^ (width - LimbDigits)
    ELSE value.hi > 0 \/ value.lo >= ENCODING_LEN ^ width

\* value mod 32^width, the number its last width base-32 digits stand for.
LowDigits(value, width) ==
    IF width >= TIME_LEN THEN value
    ELSE IF width >= LimbDigits
    THEN Num(value.hi % (ENCODING_LEN ^ (width - LimbDigits)), value.lo)
    ELSE Num(0, value.lo % (ENCODING_LEN ^ width))

\* C17 (as stated): encodeTime(value, width) returns exactly width alphabet
\* characters whose base-32 value is value, zero-padded on the left, and
\* throws instead of returning a string whenever value is negative, is not an
\* integer or needs more than width base-32 digits.
C17_EncodeFailsOnTruncation ==
    applied.fn = "encodeTime" =>
        LET value == applied.timestamp
            width == applied.len
            str == applied.result.val
        IN  /\ ( /\ IsNumberValue(value)
                 /\ \/ BelowZero(value)
                    \/ Fractional(value)
                    \/ NeedsMoreDigits(value, width) )
                   => ~applied.result.ok
            /\ (EncodedValid /\ ~NeedsMoreDigits(value, width)) =>
                   /\ applied.result.ok
                   /\ Len(str) = width
                   /\ \A k \in 1..Len(str) : str[k] \in Alphabet
                   /\ Base32Value(str) = value

\* C17 (amended): encodeTime(value, width) throws exactly when
\* validateTimestamp rejects value (NaN, above 2^48 - 1, negative,
\* fractional), with the validator's message; otherwise it returns exactly
\* width alphabet characters, the last width base-32 digits of value,
\* zero-padded on the left: their base-32 value is value mod 32^width, which
\* is value when value < 32^width and a truncation, not an error, when value
\* needs more digits.
C17_EncodeTruncates ==
    applied.fn = "encodeTime" =>
        LET value == applied.timestamp
            width == applied.len
            str == applied.result.val
        IN  /\ applied.result.ok <=> validateTimestamp(value) = ""
            /\ ~applied.result.ok
                   => applied.result = ThrowStr(validateTimestamp(value))
            /\ applied.result.ok =>
                   /\ Len(str) = width
                   /\ \A k \in 1..Len(str) : str[k] \in Alphabet
                   /\ Base32Value(str) = LowDigits(value, width)
                   /\ ~NeedsMoreDigits(value, width) => Base32Value(str) = value
                   /\ NeedsMoreDigits(value, width) => Base32Value(str) # value
                   /\ width > TIME_LEN
                          => SubSeq(str, 1, width - TIME_LEN)
                                 = Repeat("0", width - TIME_LEN)

\* encodeTime(1470118279201, 8) returned AS4Y1E11, the truncation the tests
\* expect.
C17_Witness ==
    /\ applied.fn = "encodeTime"
    /\ applied.timestamp = TRUNCATED_TIME
    /\ applied.len = 8
    /\ NeedsMoreDigits(applied.timestamp, applied.len)
    /\ applied.result = ReturnStr(<< "A","S","4","Y","1","E","1","1" >>)

\* encodeTime(1470264322240, 12) returned 0001AS99AA60.
C17_WitnessPadded ==
    /\ applied.fn = "encodeTime"
    /\ applied.timestamp = PADDED_TIME
    /\ applied.len = 12
    /\ applied.result =
           ReturnStr(<< "0","0","0","1","A","S","9","9","A","A","6","0" >>)

(***************************************************************************)
(* incrementBase32                                                         *)
(***************************************************************************)

\* incrementBase32 was called directly with 1 to 16 characters.
Incremented ==
    /\ applied.fn = "incrementBase32"
    /\ Len(applied.str) \in 1..RANDOM_LEN
WellFormed(str) == \A k \in 1..Len(str) : str[k] \in Alphabet
AllMax(str) == \A k \in 1..Len(str) : str[k] = "Z"

\* n + 1 on the limbs.
Succ(n) == IF n.lo = Limb - 1 THEN Num(n.hi + 1, 0) ELSE Num(n.hi, n.lo + 1)

\* The base-32 value of a string of at most 16 characters in two parts: of
\* its last ten characters and of those before them.
LowValue(str) ==
    Base32Value(SubSeq(str, IF Len(str) > TIME_LEN THEN Len(str) - TIME_LEN + 1
                                                    ELSE 1, Len(str)))
HighValue(str) ==
    Base32Value(SubSeq(str, 1, IF Len(str) > TIME_LEN THEN Len(str) - TIME_LEN
                                                       ELSE 0))

\* The value of b is the value of a plus one.
ValuePlusOne(a, b) ==
    IF LowValue(a) = Num(Limb - 1, Limb - 1)
    THEN LowValue(b) = Zero /\ HighValue(b) = Succ(HighValue(a))
    ELSE LowValue(b) = Succ(LowValue(a)) /\ HighValue(b) = HighValue(a)

\* C14: for every string s of alphabet symbols below the maximum of its
\* width, incrementBase32(s) has the length of s and the base-32 value of s
\* plus one: the trailing Z's become 0 and the character before them
\* advances by one symbol; so s < incrementBase32(s) as strings, and two
\* different strings have different increments.
C14_IncrementAddsOne ==
    (Incremented /\ WellFormed(applied.str) /\ ~AllMax(applied.str)) =>
        LET str == applied.str
            out == applied.result.val
        IN  /\ applied.result.ok
            /\ Len(out) = Len(str)
            /\ WellFormed(out)
            /\ ValuePlusOne(str, out)
            /\ out = PlusOne(str)
            /\ StrLess(str, out)
            /\ \A str2 \in WellFormedInputs :
                   (str2 # str /\ ~AllMax(str2))
                       => incrementBase32(str2).val # out

\* incrementBase32 returned Z000000000000000 for YZZZZZZZZZZZZZZZ, a carry
\* through fifteen characters.
C14_Witness ==
    /\ Incremented
    /\ applied.str = << "Y" >> \o Repeat("Z", RANDOM_LEN - 1)
    /\ applied.result = ReturnStr(<< "Z" >> \o Repeat("0", RANDOM_LEN - 1))

\* C15: incrementBase32(s) throws 'Cannot increment Base32 maximum value'
\* whenever all characters of s are Z, for every width from 1 to 16; it does
\* not wrap to zeros and throws no other error for such a string.
C15_MaximumOverflows ==
    (Incremented /\ AllMax(applied.str))
        => applied.result = ThrowStr(ErrMaximum)

\* C16: incrementBase32(s) throws 'Incorrectly encoded string' for every s
\* of at most 16 characters with a character outside the alphabet, wherever
\* it stands, and returns nothing for it.
C16_InvalidCharacterFails ==
    ( /\ applied.fn = "incrementBase32"
      /\ Len(applied.str) <= RANDOM_LEN
      /\ ~WellFormed(applied.str) )
        => applied.result = ThrowStr(ErrEncoded)

(***************************************************************************)
(* The forward branch and failed calls of the monotonic generator          *)
(***************************************************************************)

\* The random component sixteen drawn bytes stand for: the byte drawn last
\* gives the first character, byte b the symbol number floor(b * 32 / 255),
\* 31 for b = 255.
RandomOf(bytes) ==
    [k \in 1..Len(bytes) |->
        LET b == bytes[Len(bytes) + 1 - k]
            n == (b * ENCODING_LEN) \div 255
        IN  ENCODING[(IF n > ENCODING_LEN - 1 THEN ENCODING_LEN - 1 ELSE n) + 1]]

\* The last call of instance i had a valid resolved timestamp greater than
\* lastTime / at most lastTime.
Forward(i) ==
    /\ Called(i)
    /\ validateTimestamp(last[i].resolved) = ""
    /\ NumGT(last[i].resolved, last[i].timeBefore)
Held(i) ==
    /\ Called(i)
    /\ validateTimestamp(last[i].resolved) = ""
    /\ ~NumGT(last[i].resolved, last[i].timeBefore)

\* C18: on a monotonic instance a call whose resolved timestamp is strictly
\* greater than lastTime sets lastTime to it, replaces lastRandom by the
\* sixteen characters of the bytes drawn in this call (whatever lastRandom
\* was) and returns encodeTime(timestamp, 10) followed by them; after every
\* call that returns, the ID is encodeTime(lastTime, 10) + lastRandom of the
\* new state.
C18_ForwardDrawsFresh ==
    \A i \in Instances :
        monotonic[i] =>
            /\ Forward(i) =>
                   /\ lastTime[i] = last[i].resolved
                   /\ Len(last[i].drawn) = RANDOM_LEN
                   /\ lastRandom[i] = RandomOf(last[i].drawn)
                   /\ last[i].result =
                          ReturnStr(encodeTime(last[i].resolved, TIME_LEN).val
                                        \o RandomOf(last[i].drawn))
            /\ Returned(i) =>
                   last[i].result.val =
                       encodeTime(lastTime[i], TIME_LEN).val \o lastRandom[i]

\* A monotonic instance that held the timestamp of the tests and a random
\* component moved forward to 2^48 - 1 with a component that is not the
\* increment of the one before.
C18_Witness ==
    \E i \in Instances :
        /\ monotonic[i]
        /\ Forward(i)
        /\ last[i].timeBefore = TEST_TIME
        /\ last[i].resolved = TIME_MAX
        /\ IsRandom(last[i].randomBefore)
        /\ last[i].randomBefore # MaxRandom
        /\ lastRandom[i] # PlusOne(last[i].randomBefore)

\* C19: a call on a monotonic instance that throws, from validateTimestamp
\* or from the increment of the maximum random component, leaves lastTime
\* and lastRandom as they were; so once a call has thrown the error of the
\* maximum value, every later call with a valid resolved timestamp of at
\* most lastTime throws it again, and the first one with a greater timestamp
\* returns an ID with a freshly drawn random component.
C19_FailedCallKeepsState ==
    \A i \in Instances :
        (monotonic[i] /\ Called(i)) =>
            /\ ~last[i].result.ok =>
                   /\ lastTime[i] = last[i].timeBefore
                   /\ lastRandom[i] = last[i].randomBefore
                   /\ last[i].drawn = << >>
            /\ last[i].afterOverflow =>
                   /\ last[i].randomBefore = MaxRandom
                   /\ Held(i) => last[i].result = ThrowStr(ErrMaximum)
                   /\ Forward(i) =>
                          /\ last[i].result.ok
                          /\ lastTime[i] = last[i].resolved
                          /\ lastRandom[i] = RandomOf(last[i].drawn)
                          /\ RandomPart(last[i].result.val) = lastRandom[i]

\* A monotonic instance threw the error of the maximum value, then threw it
\* again for an older timestamp.
C19_WitnessAgain ==
    \E i \in Instances :
        /\ monotonic[i]
        /\ last[i].afterOverflow
        /\ Exhausted(i)
        /\ NumLT(last[i].resolved, last[i].timeBefore)

\* A monotonic instance threw the error of the maximum value and its next
\* call, with a greater timestamp, returned an ID.
C19_Witness ==
    \E i \in Instances :
        /\ monotonic[i]
        /\ last[i].afterOverflow
        /\ Returned(i)
        /\ Forward(i)
        /\ lastTime[i] = TIME_MAX

(***************************************************************************)
(* Calls of several callers on one instance                                *)
(***************************************************************************)

\* The IDs instance i returned are strictly increasing in the order returned.
Increasing(i) ==
    \A j, k \in 1..Len(ids[i]) :
        j < k => (ids[i][j] # ids[i][k] /\ StrLess(ids[i][j], ids[i][k]))

\* C20: when the calls of several callers on one monotonic instance each run
\* their comparison and their assignments as one step, in whatever order the
\* callers take turns, every call does what the closure does and the IDs are
\* distinct and strictly increasing in the order returned: an ID that is not
\* greater than an earlier one is returned only after two calls interleaved
\* between the comparison with lastTime and the assignments, and then such
\* a state is reachable (C20_Witness).
C20_AtomicCallsIncrease ==
    \A i \in Instances :
        /\ ~Increasing(i) => overlapped
        /\ (~overlapped /\ Called(i)) =>
               \A e \in {ulidMonotonic(last[i].timeBefore,
                                       last[i].randomBefore,
                                       last[i].timestamp, last[i].clock,
                                       last[i].drawn)} :
                   /\ e.result = last[i].result
                   /\ e.lastTime = lastTime[i]
                   /\ e.lastRandom = lastRandom[i]

\* Two calls overlapped and the instance returned an ID that is not greater
\* than one it returned before.
C20_Witness ==
    /\ overlapped
    /\ \E i \in Instances :
           \E j, k \in 1..Len(ids[i]) :
               j < k /\ ~StrLess(ids[i][j], ids[i][k])

\* Both callers took turns, no call overlapped another, and the instance
\* returned three increasing IDs.
C20_WitnessAtomic ==
    /\ ~overlapped
    /\ \E i \in Instances :
           /\ Len(ids[i]) = 3
           /\ Increasing(i)
           /\ TimePart(ids[i][2]) = TimePart(ids[i][3])

(***************************************************************************)
(* Two instances                                                           *)
(***************************************************************************)

\* What a generator made with argument a holds and has returned after the
\* first k calls of h, when it is the only generator there is.
RECURSIVE Replay(_, _, _)
Replay(a, h, k) ==
    IF k = 0
    THEN [lastTime |-> Zero, lastRandom |-> UndefinedStr, ids |-> << >>]
    ELSE LET s == CHOOSE s \in {Replay(a, h, k - 1)} : TRUE
             e == CHOOSE e \in
                      { IF ulidFactory(a)
                        THEN ulidMonotonic(s.lastTime, s.lastRandom,
                                           h[k].timestamp, h[k].now, h[k].drawn)
                        ELSE ulidNonMonotonic(s.lastTime, s.lastRandom,
                                              h[k].timestamp, h[k].now,
                                              h[k].drawn) } : TRUE
         IN  [lastTime |-> e.lastTime, lastRandom |-> e.lastRandom,
              ids |-> IF e.result.ok THEN Append(s.ids, e.result.val)
                      ELSE s.ids]

\* C21: two generators from separate factory calls share no state: however
\* the calls on the two are interleaved, each holds the lastTime and
\* lastRandom and has returned the IDs it would have after its own calls
\* alone (same timestamps, clock readings and random draws); an instance
\* that was not the last one called still holds what its own last call left,
\* a fresh one what the factory left; the IDs of each instance are strictly
\* increasing.  Across the two no order holds (C21_Witness).
C21_InstancesIndependent ==
    \A i \in Instances :
        /\ Replay(args[i], history[i], Len(history[i])) =
               [lastTime |-> lastTime[i], lastRandom |-> lastRandom[i],
                ids |-> ids[i]]
        /\ monotonic[i] => Increasing(i)
        /\ ~Called(i) => (lastTime[i] = Zero /\ lastRandom[i] = UndefinedStr)
        /\ (Called(i) /\ last[i].seq < ncalls) =>
               \A e \in {ulidMonotonic(last[i].timeBefore, last[i].randomBefore,
                                       last[i].timestamp, last[i].clock,
                                       last[i].drawn)} :
                   e.lastTime = lastTime[i] /\ e.lastRandom = lastRandom[i]

\* Both instances were called in turn, the first one twice with the other's
\* call in between, and the ID the second returned is smaller than the one
\* the first had returned before it: no order across instances.
C21_Witness ==
    \E i, m \in Instances :
        /\ i # m
        /\ Len(history[i]) = 2
        /\ Len(ids[i]) = 2
        /\ Len(ids[m]) = 1
        /\ last[m].seq = 2
        /\ StrLess(ids[m][1], ids[i][1])
        /\ TimePart(ids[i][1]) = TimePart(ids[i][2])

(***************************************************************************)
(* randomChar                                                              *)
(***************************************************************************)

\* C22: for every byte b of 0..255 randomChar returns one alphabet
\* character, the symbol number floor(b / 255 * 32) clamped to 31; the
\* unclamped number is 32 for b = 255 only; every symbol is returned for
\* exactly 8 of the 256 bytes (symbol number k for the bytes 8k .. 8k + 7).
C22_RandomCharUniform ==
    applied.fn = "randomChar" =>
        LET b == applied.byte
            char == applied.result.val
            floor == (b * ENCODING_LEN) \div 255
            index == IF floor > ENCODING_LEN - 1 THEN ENCODING_LEN - 1 ELSE floor
        IN  /\ applied.result.ok
            /\ Len(char) = 1
            /\ char[1] \in Alphabet
            /\ index \in 0..(ENCODING_LEN - 1)
            /\ char[1] = ENCODING[index + 1]
            /\ floor = ENCODING_LEN <=> b = 255
            /\ floor <= ENCODING_LEN
            /\ Cardinality({b2 \in Bytes : randomChar(b2) = char}) = 8
            /\ IndexOf(ENCODING, char[1]) = b \div 8
            /\ Cardinality(Alphabet) * 8 = Cardinality(Bytes)

\* randomChar returned Z for the byte 255, the one that needs the clamp.
C22_Witness ==
    /\ applied.fn = "randomChar"
    /\ applied.byte = 255
    /\ applied.result = ReturnStr(<< "Z" >>)

(***************************************************************************)
(* The first call of a monotonic generator                                 *)
(***************************************************************************)

\* C23: on a monotonic instance lastRandom is a 16-character alphabet string
\* whenever the increment branch is taken; the first call of a fresh
\* instance (lastTime = 0, lastRandom unassigned) takes the other branch and
\* returns a well-formed ID for every valid resolved timestamp, 0 included
\* (the clock reading 0).
C23_IncrementHasRandom ==
    \A i \in Instances :
        (monotonic[i] /\ Called(i)) =>
            /\ Held(i) => IsRandom(last[i].randomBefore)
            /\ ( /\ last[i].timeBefore = Zero
                 /\ last[i].randomBefore = UndefinedStr
                 /\ validateTimestamp(last[i].resolved) = "" )
                   => /\ last[i].result.ok
                      /\ Len(last[i].drawn) = RANDOM_LEN
                      /\ Len(last[i].result.val) = TIME_LEN + RANDOM_LEN
                      /\ WellFormed(last[i].result.val)
                      /\ lastRandom[i] = RandomPart(last[i].result.val)

====
